---- MODULE Spec2Model ----
(***************************************************************************)
(* A model of the FLEX.JS Lexer (src/src/Lexer.js): the match selector of  *)
(* scan(), the scan driver (lex / lexAll / scan), and the action API that  *)
(* rule actions call back into (echo, reject, more, less, unput, input,    *)
(* begin, pushState, popState, restart, terminate).                        *)
(*                                                                         *)
(* Strings are sequences of one-character strings.  A regular expression   *)
(* is kept as its source text and interpreted by MatchFrom, a backtracking *)
(* matcher for the fragment  ^  $  .  \c  c  with the greedy quantifiers   *)
(* + and *, evaluated sticky at an offset with the multiline flag, as      *)
(* compileRuleExpression builds it (flags "ym").                           *)
(***************************************************************************)
EXTENDS Integers, Sequences, FiniteSets, TLC

\* ------------------------------------------------------------------ bounds

\* Longest source string drawn in Init.
MaxLen == 2

\* Most API calls one rule action makes.
MaxCalls == 2

\* Longest source unput() may build.
MaxSource == MaxLen + 1

\* Longest source string of the scans without rules.
MaxEchoLen == 4

\* Most rules one rule list of the selection scans holds.
MaxRules == 3

\* Most texts the captured echo output and the token array keep.
MaxOut == MaxEchoLen + 1

\* Deepest state stack pushState() builds.
MaxStack == 2

\* Furthest below 0 that reject() and less() may take the cursor.
MaxRewind == 1

\* Longest text more() may carry over to the next pass (and no more() once
\* the cursor is past MaxSource).
MaxCarry == MaxLen

\* ------------------------------------------------------- program constants

\* Lexer.EOF
EOF == 0

\* The JavaScript value undefined as a scan()/action result (any value that
\* is not a number returned by an action).
Undefined == -1

\* A token value returned by an action (any value other than undefined, 0).
Token == 1

STATE_INITIAL == "INITIAL"

STATE_ANY == "*"

RULE_EOF == <<"<", "<", "E", "O", "F", ">", ">">>

\* this.text = undefined (reset); distinct from every string.
UndefText == <<"undefined">>

\* What JavaScript's + makes of undefined when appending a string to it.
UndefChars == <<"u", "n", "d", "e", "f", "i", "n", "e", "d">>

\* A compiled expression of an EOF rule (null).
Null == <<"null">>

\* fixedWidth of a rule whose expression is not a literal string (undefined).
NoWidth == -1

\* -------------------------------------------------------- JavaScript strings

Min(a, b) == IF a < b THEN a ELSE b

Max(a, b) == IF a > b THEN a ELSE b

\* s.substr(start, length): a negative start counts from the end, the length
\* is clamped to what is left.
Substr(s, start, length) == LET from == IF start < 0 THEN Max(Len(s) + start, 0) ELSE Min(start, Len(s)) n == Min(Max(length, 0), Len(s) - from) IN SubSeq(s, from + 1, from + n)

\* s.substr(start): to the end of the string.
SubstrFrom(s, start) == Substr(s, start, Len(s))

\* s.charAt(i): the empty string when i is out of range.
CharAt(s, i) == IF i >= 0 /\ i < Len(s) THEN <<s[i + 1]>> ELSE <<>>

\* The string JavaScript's += appends to: undefined becomes "undefined".
ToStr(t) == IF t = UndefText THEN UndefChars ELSE t

\* ------------------------------------------------------- pattern compiler

MetaChars == {".", "*", "+", "?", "^", "$", "{", "}", "(", ")", "|", "[", "]", "\\"}

RECURSIVE escapeRegExp(_)
\* escapeRegExp: every regex metacharacter is prefixed with a backslash.
escapeRegExp(s) == IF s = <<>> THEN <<>> ELSE (IF Head(s) \in MetaChars THEN <<"\\", Head(s)>> ELSE <<Head(s)>>) \o escapeRegExp(Tail(s))

\* isRegExpMatchBOL: the source's first character is ^.
isRegExpMatchBOL(re) == Substr(re, 0, 1) = <<"^">>

\* isRegExpMatchEOL: the source's last character is $.
isRegExpMatchEOL(re) == SubstrFrom(re, -1) = <<"$">>

\* ^ under the multiline flag: at offset 0 or right after a line feed.
AtBOL(s, p) == p = 0 \/ (p >= 1 /\ p <= Len(s) /\ s[p] = "\n")

\* $ under the multiline flag: at the end of input or right before a line feed.
AtEOL(s, p) == p = Len(s) \/ (p < Len(s) /\ s[p + 1] = "\n")

\* Width in the source of the atom that starts at re[i]: 2 for \c, else 1.
AtomLen(re, i) == IF re[i] = "\\" /\ i < Len(re) THEN 2 ELSE 1

\* Whether the atom at re[i] matches the character c.
AtomMatches(re, i, c) == IF re[i] = "\\" /\ i < Len(re) THEN c = re[i + 1] ELSE IF re[i] = "." THEN c # "\n" ELSE c = re[i]

RECURSIVE RunLen(_, _, _, _)
\* How many consecutive characters of s from offset p the atom at re[i] matches.
RunLen(re, i, s, p) == IF p < Len(s) /\ AtomMatches(re, i, s[p + 1]) THEN 1 + RunLen(re, i, s, p + 1) ELSE 0

RECURSIVE MatchFrom(_, _, _, _)
RECURSIVE Greedy(_, _, _, _, _, _)
\* A greedy quantifier: try k repetitions, the most first, then the rest of
\* the expression from re[next]; back off one repetition on failure.
Greedy(re, next, s, p, k, least) == IF k < least THEN -1 ELSE LET e == MatchFrom(re, next, s, p + k) IN IF e # -1 THEN e ELSE Greedy(re, next, s, p, k - 1, least)

\* The backtracking matcher: the end offset of the match of re[i..] at offset
\* p of s, or -1 when there is none.
MatchFrom(re, i, s, p) ==
  IF i > Len(re) THEN p
  ELSE IF re[i] = "^" THEN (IF AtBOL(s, p) THEN MatchFrom(re, i + 1, s, p) ELSE -1)
  ELSE IF re[i] = "$" THEN (IF AtEOL(s, p) THEN MatchFrom(re, i + 1, s, p) ELSE -1)
  ELSE LET n == AtomLen(re, i)
           q == IF i + n <= Len(re) THEN re[i + n] ELSE ""
           run == RunLen(re, i, s, p)
       IN IF q = "+" THEN Greedy(re, i + n + 1, s, p, run, 1)
          ELSE IF q = "*" THEN Greedy(re, i + n + 1, s, p, run, 0)
          ELSE IF run >= 1 THEN MatchFrom(re, i + n, s, p + 1)
          ELSE -1

\* ToLength(lastIndex): a negative lastIndex is read as 0 by RegExp exec.
ToLength(i) == Max(i, 0)

\* execRegExp: sticky match of re at this.index; the matched string, or
\* NoMatch (undefined).  lastIndex past the end of the source never matches.
NoMatch == <<"nomatch">>

execRegExp(re, src, idx) == LET p == ToLength(idx) e == IF p > Len(src) THEN -1 ELSE MatchFrom(re, 1, src, p) IN IF e = -1 THEN NoMatch ELSE SubSeq(src, p + 1, e)

\* ------------------------------------------------ state registry, rule table

\* A name every object inherits from Object.prototype: this.states and
\* this.rules are plain objects ({}), so looking such a name up yields a
\* function, which is truthy, whether or not addState() was called with it.
ProtoKeys == {"constructor"}

\* A pattern given to addStateRule: a string (str) or a RegExp without flags,
\* with its text / source.
Str(chars) == [str |-> TRUE, src |-> chars]

Re(chars) == [str |-> FALSE, src |-> chars]

\* A RegExp with flags, a sequence of flag letters.  The flag u changes
\* nothing for the patterns used here.
ReFlags(chars, flags) == [str |-> FALSE, src |-> chars, flags |-> flags]

\* expression.flags of a pattern ('' unless it is a RegExp given with flags).
FlagsOf(expression) == IF "flags" \in DOMAIN expression THEN expression.flags ELSE <<>>

\* The configuration after clear(): only the inclusive INITIAL state, no
\* rules, no definitions, both options off.  order lists the keys of
\* this.states in insertion order (for .. in order).
clear == [order |-> <<STATE_INITIAL>>, exclusive |-> (STATE_INITIAL :> FALSE), rules |-> (STATE_INITIAL :> <<>>), definitions |-> {}, ignoreCase |-> FALSE, debugEnabled |-> FALSE]

\* addState(name, exclusive): this.states[name] is (re)assigned; a new key is
\* appended to the key order.  A state without a rule list has none (<<>>).
addState(cfg, name, excl) == [cfg EXCEPT !.order = IF name \in DOMAIN cfg.exclusive THEN cfg.order ELSE Append(cfg.order, name), !.exclusive = (name :> excl) @@ cfg.exclusive, !.rules = IF name \in ProtoKeys THEN cfg.rules ELSE cfg.rules @@ (name :> <<>>)]

\* setIgnoreCase(ignoreCase)
setIgnoreCase(cfg, ignoreCase) == [cfg EXCEPT !.ignoreCase = ignoreCase]

\* setDebugEnabled(debugEnabled)
setDebugEnabled(cfg, debugEnabled) == [cfg EXCEPT !.debugEnabled = debugEnabled]

\* addDefinition(name, expression) with a valid name: this.definitions[name]
\* is assigned the escaped string or the source of the RegExp; an empty
\* expression or a RegExp with flags throws.
addDefinition(cfg, name, expression) ==
  IF expression.src = <<>> \/ "flags" \in DOMAIN expression THEN cfg
  ELSE [cfg EXCEPT !.definitions = {d \in @ : d.name # name} \cup {[name |-> name, expression |-> IF expression.str THEN escapeRegExp(expression.src) ELSE expression.src]}]

\* compileRuleExpression: new RegExp(source, flags + "ym"), whose source is
\* the source given: no pattern here names a definition ({name}), and the
\* flag i that ignoreCase adds changes no match of the lower-case patterns
\* on the lower-case sources.
compileRuleExpression(source) == source

\* The rule record addStateRule builds from an expression and an action.
MakeRule(expression, action) ==
  LET isEOF == expression.str /\ expression.src = RULE_EOF
      source == IF isEOF THEN Null ELSE IF expression.str THEN escapeRegExp(expression.src) ELSE expression.src
      compiled == IF isEOF THEN Null ELSE compileRuleExpression(source)
  IN [expression |-> compiled,
      hasBOL |-> (~isEOF) /\ isRegExpMatchBOL(compiled),
      hasEOL |-> (~isEOF) /\ isRegExpMatchEOL(compiled),
      isEOF |-> isEOF,
      action |-> action,
      fixedWidth |-> IF (~isEOF) /\ expression.str THEN Len(expression.src) ELSE NoWidth]

\* A faulty resolution, which takes every registered state whatever the spec.
ResolveAll(cfg, spec) == cfg.order

\* A faulty resolution, which leaves the exclusive states out whatever the
\* spec.
ResolveInclusive(cfg, spec) == LET IsIncl(n) == ~cfg.exclusive[n] IN SelectSeq(cfg.order, IsIncl)

\* The states a state spec resolves to: undefined = every inclusive state,
\* "*" = every state, a name = that state, a list = the list; empty names
\* are filtered out.
ResolveStates(cfg, spec) ==
  LET IsIncl(n) == ~cfg.exclusive[n]
      NonEmpty(n) == n # ""
      target == IF spec.kind = "none" THEN SelectSeq(cfg.order, IsIncl)
                ELSE IF spec.kind = "name" /\ spec.names = <<STATE_ANY>> THEN cfg.order
                ELSE spec.names
  IN SelectSeq(target, NonEmpty)

\* Whether addStateRule throws before it builds the rule: empty state list,
\* a state whose lookup this.states[state] is falsy, an empty pattern, a
\* RegExp flag other than i and u.
addStateRuleThrows(cfg, spec, expression) ==
  LET sts == ResolveStates(cfg, spec)
      flags == FlagsOf(expression)
  IN \/ sts = <<>>
     \/ \E k \in 1..Len(sts) : sts[k] \notin (DOMAIN cfg.exclusive \cup ProtoKeys)
     \/ expression.src = <<>>
     \/ \E k \in 1..Len(flags) : flags[k] \notin {"i", "u"}

\* Whether the push loop throws: this.rules[state] of an inherited name is a
\* function, truthy and without push (TypeError).
PushThrows(cfg, spec) == \E k \in 1..Len(ResolveStates(cfg, spec)) : ResolveStates(cfg, spec)[k] \notin DOMAIN cfg.rules

RECURSIVE PushRule(_, _, _, _)
\* The loop that appends the rule to the list of each resolved state, in turn;
\* it ends at the first state whose list has no push, by the TypeError.
PushRule(rules, sts, k, rule) == IF k > Len(sts) \/ sts[k] \notin DOMAIN rules THEN rules ELSE PushRule([rules EXCEPT ![sts[k]] = Append(@, rule)], sts, k + 1, rule)

\* addStateRule(states, expression, action), action a function or omitted:
\* the configuration afterwards, also when the call throws.
addStateRule(cfg, spec, expression, action) ==
  IF addStateRuleThrows(cfg, spec, expression) THEN cfg
  ELSE [cfg EXCEPT !.rules = PushRule(cfg.rules, ResolveStates(cfg, spec), 1, MakeRule(expression, action))]

\* addRule(expression, action) = addStateRule(undefined, expression, action).
addRule(cfg, expression, action) == addStateRule(cfg, [kind |-> "none", names |-> <<>>], expression, action)

\* ------------------------------------------------------------ match selector

\* The selector's accumulator: matchedIndex (0 = no rule; rules are numbered
\* from 1 in registration order), matchedValue, matchedValueLength, and
\* whether execRegExp threw (a null expression) or the loop hit its break.
NoneMatched == [index |-> 0, value |-> <<>>, length |-> 0, threw |-> FALSE, done |-> FALSE]

\* Whether the selector evaluates a rule at all: a literal no longer than the
\* best effective length so far is skipped.
Evaluated(rule, best) == rule.fixedWidth = NoWidth \/ rule.fixedWidth > best.length

\* The effective length of a match: its raw length plus one per anchor flag.
EffectiveLength(rule, m) == Len(m) + (IF rule.hasBOL THEN 1 ELSE 0) + (IF rule.hasEOL THEN 1 ELSE 0)

\* Whether a candidate of effective length n replaces the current best.
Improves(n, best) == n > best.length

\* One iteration of the loop over the active state's rules.
SelectStep(rule, k, best, rejected, atEOF, src, idx) ==
  IF \E j \in 1..Len(rejected) : rejected[j] = k THEN best
  ELSE IF atEOF THEN (IF rule.isEOF THEN [index |-> k, value |-> <<>>, length |-> best.length, threw |-> FALSE, done |-> TRUE] ELSE best)
  ELSE IF ~Evaluated(rule, best) THEN best
  ELSE IF rule.expression = Null THEN [best EXCEPT !.threw = TRUE, !.done = TRUE]
  ELSE LET curMatch == execRegExp(rule.expression, src, idx)
       IN IF curMatch # NoMatch /\ Improves(EffectiveLength(rule, curMatch), best)
          THEN [index |-> k, value |-> curMatch, length |-> EffectiveLength(rule, curMatch), threw |-> FALSE, done |-> FALSE]
          ELSE best

RECURSIVE SelectLoop(_, _, _, _, _, _, _)
\* The for .. in loop of scan() from rule k on.
SelectLoop(rules, k, best, rejected, atEOF, src, idx) == IF k > Len(rules) \/ best.done THEN best ELSE SelectLoop(rules, k + 1, SelectStep(rules[k], k, best, rejected, atEOF, src, idx), rejected, atEOF, src, idx)

\* The rule scan() selects among `rules` at offset idx of src.
Select(rules, rejected, src, idx) == SelectLoop(rules, 1, NoneMatched, rejected, idx >= Len(src), src, idx)

\* ------------------------------------------------------------ scanner state

VARIABLES cfg, sink, given, source, index, text, state, ruleIndex, readMore, stateStack, rejectedRules, pc, mode, pass, result, tokens, output

vars == <<cfg, sink, given, source, index, text, state, ruleIndex, readMore, stateStack, rejectedRules, pc, mode, pass, result, tokens, output>>

\* cfg            states, rules (the configuration; see clear)
\* sink           where echo() writes: "stdout" (process.stdout, outside the
\*                scanner) or "capture" (echo replaced by a function that
\*                appends this.text to output, as the tests do)
\* given          the string last installed by setSource() or restart(newSource)
\* source .. rejectedRules   the runtime fields reset() initialises
\* pc             "idle"   no lex() call is running
\*                "scan"   inside lex(), about to call scan()
\*                "action" inside scan(), inside the selected rule's action
\*                "thrown" the last lex() call ended with an exception
\* mode           "lex" or "lexAll": which driver runs the passes
\* pass           the running (or last) call of scan(): its locals isEOF,
\*                matchedRule, matchedIndex, matchedValue, rejectedBefore,
\*                and what it started from and did (see NoPass)
\* result         what the last lex() call (or the lex() that ended lexAll) returned
\* tokens         the array lexAll() collects
\* output         the texts given to a capturing echo sink, in order

\* No rule: the value of matchedRule when nothing was selected.
NoRule == [expression |-> Null, hasBOL |-> FALSE, hasEOL |-> FALSE, isEOF |-> FALSE, action |-> FALSE, fixedWidth |-> NoWidth]

\* What an API call returned to the action: nothing recorded, undefined, a
\* state name, a string, or EOF.
NoValue == [kind |-> "none", name |-> "", chars |-> <<>>]

UndefinedValue == [kind |-> "undefined", name |-> "", chars |-> <<>>]

StateValue(s) == [kind |-> "state", name |-> s, chars |-> <<>>]

TextValue(t) == [kind |-> "text", name |-> "", chars |-> t]

EOFValue == [kind |-> "eof", name |-> "", chars |-> <<>>]

\* The record of a call of scan().
\*   kind      "none" no call yet, "rule" a rule was selected, "echo" the
\*             default rule echoed a character, "eof" nothing selected at
\*             end of input, "threw" the selection raised an exception
\*   start, state, stack, rejected, carry, kept   this.index, this.state,
\*             this.stateStack, this.rejectedRules, this.readMore at entry
\*             and the text carried over (empty without readMore)
\*   calls, made   the API functions the action has called so far, and
\*             how many calls it has made
\*   got       what the last call of input(), topState() or terminate()
\*             returned to the action
\*   done, threw, yield   the call has ended, by an exception, returning yield
NoPass == [kind |-> "none", start |-> 0, state |-> STATE_INITIAL, stack |-> <<>>, rejected |-> <<>>, carry |-> FALSE, kept |-> <<>>, isEOF |-> FALSE, matchedRule |-> NoRule, matchedIndex |-> 0, matchedValue |-> <<>>, rejectedBefore |-> 0, calls |-> {}, made |-> 0, got |-> NoValue, trace |-> <<>>, done |-> TRUE, threw |-> FALSE, yield |-> Undefined]

\* A faulty lookup, which takes the rules of INITIAL whatever the state.
RulesOfInitial(st) == cfg.rules[STATE_INITIAL]

\* this.rules[st] || []
RulesOf(st) == IF st \in DOMAIN cfg.rules THEN cfg.rules[st] ELSE <<>>

ActiveRules == RulesOf(state)

Registered(s) == s \in DOMAIN cfg.exclusive

\* this.states[s] is truthy: the test begin(), pushState() and
\* addStateRule() make of a state name.
Known(s) == Registered(s) \/ s \in ProtoKeys

\* An omitted state argument (undefined).
NoArg == "undefined"

\* A faulty reset(), which keeps the start condition and the state stack.
ResetKeepsState ==
  /\ source' = <<>>
  /\ index' = 0
  /\ text' = UndefText
  /\ ruleIndex' = 0
  /\ readMore' = FALSE
  /\ rejectedRules' = <<>>
  /\ UNCHANGED <<state, stateStack>>

\* The runtime fields as reset() leaves them.
ResetRuntime ==
  /\ source' = <<>>
  /\ index' = 0
  /\ text' = UndefText
  /\ state' = STATE_INITIAL
  /\ ruleIndex' = 0
  /\ readMore' = FALSE
  /\ stateStack' = <<>>
  /\ rejectedRules' = <<>>

\* A faulty echo(), which writes nothing.
Muted(out, t) == out

\* The echo sink takes one more text (a capturing sink keeps the first MaxOut).
Sink(out, t) == IF sink = "capture" /\ Len(out) < MaxOut THEN Append(out, ToStr(t)) ELSE out

\* A faulty lex(), which returns whatever the first scan() yields.
ContinuesNever(v) == FALSE

\* Whether lex() goes round its loop (or lexAll() calls lex() again) after
\* scan() returned v.
Continues(v) == v = Undefined \/ (mode = "lexAll" /\ v # EOF)

\* scan() returned v to lex(): undefined loops, anything else ends the lex()
\* call; lexAll() collects it and calls lex() again unless it is EOF.
Return(v) ==
  /\ pc' = IF Continues(v) THEN "scan" ELSE "idle"
  /\ result' = IF Continues(v) THEN result ELSE v
  /\ tokens' = IF mode = "lexAll" /\ v # Undefined /\ v # EOF /\ Len(tokens) < MaxOut THEN Append(tokens, v) ELSE tokens

\* An exception leaves scan() and lex() (and lexAll()) where it was raised.
Throw ==
  /\ pc' = "thrown"
  /\ UNCHANGED <<result, tokens>>

Runtime == <<source, index, text, state, ruleIndex, readMore, stateStack, rejectedRules>>

Config == <<cfg, sink>>

Installed == <<Config, given>>

\* ------------------------------------------------------------- the drivers

\* lex(): start scanning where the last call left off.
Lex ==
  /\ pc \in {"idle", "thrown"}
  /\ pc' = "scan"
  /\ mode' = "lex"
  /\ UNCHANGED <<Installed, Runtime, pass, result, tokens, output>>

\* lexAll(): lex() until EOF, collecting the tokens.
LexAll ==
  /\ pc \in {"idle", "thrown"}
  /\ pc' = "scan"
  /\ mode' = "lexAll"
  /\ tokens' = <<>>
  /\ UNCHANGED <<Installed, Runtime, pass, result, output>>

\* setSource(source), called between lex() calls.
SetSource(s) ==
  /\ pc \in {"idle", "thrown"}
  /\ source' = s
  /\ given' = s
  /\ index' = 0
  /\ UNCHANGED <<Config, text, state, ruleIndex, readMore, stateStack, rejectedRules, pc, mode, pass, result, tokens, output>>

\* A faulty carry-over, which forgets the text more() asked to keep.
KeptNothing == <<>>

\* The text a pass starts from: this.readMore ? this.text : ''.
Kept == IF readMore THEN ToStr(text) ELSE <<>>

RECURSIVE encodeString(_)
\* encodeString: a line feed becomes a backslash and n (the other control
\* characters it replaces are in no source or pattern here).
encodeString(s) == IF s = <<>> THEN <<>> ELSE (IF Head(s) = "\n" THEN <<"\\", "n">> ELSE <<Head(s)>>) \o encodeString(Tail(s))

\* logAccept(state, expression, value): the record written to the console,
\* of the state, the encoded source of the expression and the encoded match.
logAccept(st, expression, value) == [state |-> st, expression |-> encodeString(expression), value |-> encodeString(value)]

\* The record of a call of scan() at its entry, given what was selected and
\* whether debug is enabled: with debug a selected rule is logged before
\* anything is assigned, and the log of an EOF rule, whose expression is
\* null, throws a TypeError (expression.source).
EnteredWith(sel, debug) ==
  LET logs == debug /\ sel.index # 0 /\ ~sel.threw
      fails == logs /\ ActiveRules[sel.index].expression = Null
  IN [kind |-> IF sel.threw \/ fails THEN "threw" ELSE IF sel.index # 0 THEN "rule" ELSE IF index >= Len(source) THEN "eof" ELSE "echo", start |-> index, state |-> state, stack |-> stateStack, rejected |-> rejectedRules, carry |-> readMore, kept |-> Kept, isEOF |-> index >= Len(source), matchedRule |-> IF sel.index # 0 /\ ~sel.threw THEN ActiveRules[sel.index] ELSE NoRule, matchedIndex |-> IF sel.threw THEN 0 ELSE sel.index, matchedValue |-> IF sel.threw THEN <<>> ELSE sel.value, rejectedBefore |-> Len(rejectedRules), calls |-> {}, made |-> 0, got |-> NoValue, trace |-> IF logs /\ ~fails THEN <<logAccept(state, ActiveRules[sel.index].expression, sel.value)>> ELSE <<>>, done |-> FALSE, threw |-> FALSE, yield |-> Undefined]

\* The record of a call of scan() under the debug option of the scanner.
Entered(sel) == EnteredWith(sel, cfg.debugEnabled)

\* scan() up to the call of the selected rule's action (lines 528-601): the
\* selection, the text carry-over, the default rule (echo one character, or
\* terminate at end of input), and the advance of the cursor.
ScanBegin ==
  /\ pc = "scan"
  /\ LET sel == Select(ActiveRules, rejectedRules, source, index)
         p == Entered(sel)
     IN IF p.kind = "threw"
        THEN /\ pass' = [p EXCEPT !.done = TRUE, !.threw = TRUE]
             /\ Throw
             /\ UNCHANGED <<Runtime, output>>
        ELSE IF p.kind = "echo"
        THEN /\ text' = p.kept \o CharAt(source, index)
             /\ index' = index + 1
             /\ ruleIndex' = 0
             /\ readMore' = FALSE
             /\ output' = Sink(output, p.kept \o CharAt(source, index))
             /\ pass' = [p EXCEPT !.done = TRUE]
             /\ Return(Undefined)
             /\ UNCHANGED <<source, state, stateStack, rejectedRules>>
        ELSE IF p.kind = "eof"
        THEN /\ ResetRuntime
             /\ pass' = [p EXCEPT !.done = TRUE, !.yield = EOF]
             /\ Return(EOF)
             /\ UNCHANGED <<output>>
        ELSE /\ ruleIndex' = p.matchedIndex
             /\ readMore' = FALSE
             /\ text' = p.kept \o p.matchedValue
             /\ index' = index + Len(p.kept \o p.matchedValue)
             /\ pass' = p
             /\ pc' = "action"
             /\ UNCHANGED <<source, state, stateStack, rejectedRules, result, tokens, output>>
  /\ UNCHANGED <<Installed, mode>>

\* --------------------------------------------------------------- action API

\* The running action (a function the rule was registered with) may make
\* one more API call.
InAction == pc = "action" /\ pass.matchedRule.action /\ pass.made < MaxCalls

\* The call is recorded; the pass goes on inside the action.
Called(name) ==
  /\ pass' = [pass EXCEPT !.calls = @ \cup {name}, !.made = @ + 1]
  /\ UNCHANGED <<Config, mode>>

\* The call is recorded with the value it returned to the action.
Returned(name, value) ==
  /\ pass' = [pass EXCEPT !.calls = @ \cup {name}, !.made = @ + 1, !.got = value]
  /\ UNCHANGED <<Config, mode>>

\* The call raised an exception, which leaves the action, scan() and lex().
Raised(name) ==
  /\ pass' = [pass EXCEPT !.calls = @ \cup {name}, !.made = @ + 1, !.done = TRUE, !.threw = TRUE]
  /\ Throw
  /\ UNCHANGED <<Installed, mode, Runtime, output>>

\* echo(): the text goes to the sink.
Echo ==
  /\ InAction
  /\ output' = Sink(output, text)
  /\ Called("echo")
  /\ UNCHANGED <<given, Runtime, pc, result, tokens>>

\* reject(): rewind by text.length, record the rule as rejected.
Reject ==
  /\ InAction
  /\ IF text = UndefText
     THEN Raised("reject")
     ELSE /\ index - Len(text) >= -MaxRewind
          /\ index' = index - Len(text)
          /\ rejectedRules' = Append(rejectedRules, ruleIndex)
          /\ Called("reject")
          /\ UNCHANGED <<given, source, text, state, ruleIndex, readMore, stateStack, pc, result, tokens, output>>

\* more(): the next match is appended to text.
More ==
  /\ InAction
  /\ Len(text) <= MaxCarry
  /\ index <= MaxSource
  /\ readMore' = TRUE
  /\ Called("more")
  /\ UNCHANGED <<given, source, index, text, state, ruleIndex, stateStack, rejectedRules, pc, result, tokens, output>>

\* less(n): give back all but the first n characters of text.
Less(n) ==
  /\ InAction
  /\ IF text = UndefText
     THEN Raised("less")
     ELSE /\ index - Len(text) >= -MaxRewind
          /\ index' = IF n > Len(text) THEN index ELSE index - (Len(text) - n)
          /\ text' = IF n > Len(text) THEN text ELSE Substr(text, 0, n)
          /\ Called("less")
          /\ UNCHANGED <<given, source, state, ruleIndex, readMore, stateStack, rejectedRules, pc, result, tokens, output>>

\* unput(s): splice s into the source at the cursor.
Unput(s) ==
  /\ InAction
  /\ Len(Substr(source, 0, index) \o s \o SubstrFrom(source, index)) <= MaxSource
  /\ source' = Substr(source, 0, index) \o s \o SubstrFrom(source, index)
  /\ Called("unput")
  /\ UNCHANGED <<given, index, text, state, ruleIndex, readMore, stateStack, rejectedRules, pc, result, tokens, output>>

\* input(n): read up to n characters at the cursor and skip them; input()
\* is input(1).
Input(n) ==
  /\ InAction
  /\ index' = index + Len(Substr(source, index, n))
  /\ Returned("input", TextValue(Substr(source, index, n)))
  /\ UNCHANGED <<given, source, text, state, ruleIndex, readMore, stateStack, rejectedRules, pc, result, tokens, output>>

\* terminate(): reset() the runtime and return EOF, which is the action's
\* to return or to drop.
Terminate ==
  /\ InAction
  /\ ResetRuntime
  /\ Returned("terminate", EOFValue)
  /\ UNCHANGED <<given, pc, result, tokens, output>>

\* A faulty restart(), which also goes back to INITIAL with an empty stack.
RestartResets(fresh, newSource) ==
  /\ InAction
  /\ source' = IF fresh THEN newSource ELSE source
  /\ given' = IF fresh THEN newSource ELSE given
  /\ index' = 0
  /\ state' = STATE_INITIAL
  /\ stateStack' = <<>>
  /\ Called("restart")
  /\ UNCHANGED <<text, ruleIndex, readMore, rejectedRules, pc, result, tokens, output>>

\* restart(newSource): install newSource (restart() keeps the source), cursor 0.
Restart(fresh, newSource) ==
  /\ InAction
  /\ source' = IF fresh THEN newSource ELSE source
  /\ given' = IF fresh THEN newSource ELSE given
  /\ index' = 0
  /\ Called("restart")
  /\ UNCHANGED <<text, state, ruleIndex, readMore, stateStack, rejectedRules, pc, result, tokens, output>>

\* The state begin(newState) goes for: INITIAL when the argument is omitted.
Target(newState) == IF newState = NoArg THEN STATE_INITIAL ELSE newState

\* begin(newState): a state name the lookup does not find throws.
Begin(newState) ==
  /\ InAction
  /\ IF ~Known(Target(newState))
     THEN Raised("begin")
     ELSE /\ state' = Target(newState)
          /\ Called("begin")
          /\ UNCHANGED <<given, source, index, text, ruleIndex, readMore, stateStack, rejectedRules, pc, result, tokens, output>>

\* switchState(newState): this.begin(newState).
SwitchState(newState) ==
  /\ InAction
  /\ IF ~Known(Target(newState))
     THEN Raised("switchState")
     ELSE /\ state' = Target(newState)
          /\ Called("switchState")
          /\ UNCHANGED <<given, source, index, text, ruleIndex, readMore, stateStack, rejectedRules, pc, result, tokens, output>>

\* A faulty topState(), which takes the top off the stack.
TopStatePops ==
  /\ InAction
  /\ Returned("topState", IF stateStack = <<>> THEN UndefinedValue ELSE StateValue(stateStack[Len(stateStack)]))
  /\ stateStack' = IF stateStack = <<>> THEN stateStack ELSE SubSeq(stateStack, 1, Len(stateStack) - 1)
  /\ UNCHANGED <<given, source, index, text, state, ruleIndex, readMore, rejectedRules, pc, result, tokens, output>>

\* topState(): the top of the stack, undefined when the stack is empty.
TopState ==
  /\ InAction
  /\ Returned("topState", IF stateStack = <<>> THEN UndefinedValue ELSE StateValue(stateStack[Len(stateStack)]))
  /\ UNCHANGED <<given, Runtime, pc, result, tokens, output>>

\* pushState(newState): push the current state, then begin(newState).
PushState(newState) ==
  /\ InAction
  /\ Len(stateStack) < MaxStack
  /\ IF ~Known(newState)
     THEN Raised("pushState")
     ELSE /\ stateStack' = Append(stateStack, state)
          /\ state' = newState
          /\ Called("pushState")
          /\ UNCHANGED <<given, source, index, text, ruleIndex, readMore, rejectedRules, pc, result, tokens, output>>

\* A faulty popState(), which pops without going to the popped state.
PopStateStays ==
  /\ InAction
  /\ IF stateStack = <<>>
     THEN Raised("popState")
     ELSE /\ stateStack' = SubSeq(stateStack, 1, Len(stateStack) - 1)
          /\ Called("popState")
          /\ UNCHANGED <<given, source, index, text, state, ruleIndex, readMore, rejectedRules, pc, result, tokens, output>>

\* popState(): pop the stack and begin() the popped state; throws when the
\* stack is empty.  (What is popped is a state begin() accepted, so the
\* lookup finds it again.)
PopState ==
  /\ InAction
  /\ IF stateStack = <<>>
     THEN Raised("popState")
     ELSE /\ stateStack' = SubSeq(stateStack, 1, Len(stateStack) - 1)
          /\ state' = stateStack[Len(stateStack)]
          /\ Called("popState")
          /\ UNCHANGED <<given, source, index, text, ruleIndex, readMore, rejectedRules, pc, result, tokens, output>>

\* A faulty scan(), which never notices a reject().
NoRejection == FALSE

\* Whether the action called reject(): rejectedRules grew during the action.
hasRejection == Len(rejectedRules) > pass.rejectedBefore

\* isEOF after the action: re-evaluated only if the pass was entered at EOF.
StillEOF == pass.isEOF /\ index >= Len(source)

\* The action returns v (discard(), the default action, returns undefined);
\* scan() from the return of the action on (lines 602-618).
ActionReturn(v) ==
  /\ pc = "action"
  /\ pass.matchedRule.action \/ v = Undefined
  /\ IF hasRejection
     THEN /\ Return(Undefined)
          /\ pass' = [pass EXCEPT !.done = TRUE, !.yield = Undefined]
          /\ UNCHANGED <<Runtime>>
     ELSE IF StillEOF
     THEN /\ ResetRuntime
          /\ Return(EOF)
          /\ pass' = [pass EXCEPT !.done = TRUE, !.yield = EOF]
     ELSE /\ rejectedRules' = <<>>
          /\ Return(v)
          /\ pass' = [pass EXCEPT !.done = TRUE, !.yield = v]
          /\ UNCHANGED <<source, index, text, state, ruleIndex, readMore, stateStack>>
  /\ UNCHANGED <<Installed, mode, output>>

\* ------------------------------------------------------------ configurations

\* A configuration call: addState(name, exclusive) or
\* addStateRule(states, expression, action).
DoAddState(name, excl) == [op |-> "addState", name |-> name, excl |-> excl, spec |-> [kind |-> "none", names |-> <<>>], expression |-> Str(<<>>), action |-> FALSE]

DoAddStateRule(spec, expression, action) == [op |-> "addStateRule", name |-> "", excl |-> FALSE, spec |-> spec, expression |-> expression, action |-> action, typeof |-> IF action THEN "function" ELSE "undefined"]

\* addStateRule(states, expression, action) with an action that is no
\* function: action is whether the value given is truthy.
DoAddStateRuleWith(spec, expression, typeof) == [op |-> "addStateRule", name |-> "", excl |-> FALSE, spec |-> spec, expression |-> expression, action |-> typeof # "undefined", typeof |-> typeof]

\* if (action && typeof action !== 'function') throw
ActionThrows(c) == c.action /\ c.typeof # "function"

DoAddRule(expression, action) == DoAddStateRule([kind |-> "none", names |-> <<>>], expression, action)

In(name) == [kind |-> "name", names |-> <<name>>]

\* A state spec that is an array of names.
List(names) == [kind |-> "list", names |-> names]

RECURSIVE Configure(_, _)
\* The configuration a program of configuration calls builds, call by call.
Configure(c, prog) == IF prog = <<>> THEN c ELSE Configure(IF Head(prog).op = "addState" THEN addState(c, Head(prog).name, Head(prog).excl) ELSE addStateRule(c, Head(prog).spec, Head(prog).expression, Head(prog).action), Tail(prog))

RECURSIVE Strings(_, _)
\* Every string over an alphabet of length n or less.
Strings(alphabet, n) == IF n = 0 THEN {<<>>} ELSE LET shorter == Strings(alphabet, n - 1) IN shorter \cup {Append(s, c) : s \in shorter, c \in alphabet}

Alphabet == {"a", "b"}

Sources == Strings(Alphabet, MaxLen)

\* The exclusive state of the configurations below.
StateS == "S"

\* The configurations the scans of Spec start from: literal and regex rules
\* that match at the same cursor, a rule without an action, and rules of an
\* exclusive state, one of them anchored.
Programs == {
  <<DoAddState(StateS, TRUE), DoAddRule(Str(<<"a">>), TRUE), DoAddRule(Re(<<"a", "+">>), TRUE), DoAddStateRule(In(StateS), Re(<<".">>), TRUE)>>,
  <<DoAddState(StateS, TRUE), DoAddRule(Str(<<"a">>), TRUE), DoAddRule(Str(<<"b">>), FALSE), DoAddStateRule(In(StateS), Re(<<"b", "$">>), TRUE)>>
  }

\* The runtime after construction (clear() ends with reset()); no lex() yet.
RuntimeInit ==
  /\ index = 0
  /\ text = UndefText
  /\ state = STATE_INITIAL
  /\ ruleIndex = 0
  /\ readMore = FALSE
  /\ stateStack = <<>>
  /\ rejectedRules = <<>>
  /\ pc = "idle"
  /\ mode = "lex"
  /\ pass = NoPass
  /\ result = Undefined
  /\ tokens = <<>>
  /\ output = <<>>

\* new Lexer(), the configuration calls of one program, setSource(source).
Init ==
  /\ cfg \in {Configure(clear, p) : p \in Programs}
  /\ sink = "stdout"
  /\ source \in Sources
  /\ given = source
  /\ RuntimeInit

\* The scanner with actions that call echo, reject, more, less and begin.
Next ==
  \/ Lex
  \/ ScanBegin
  \/ Echo
  \/ Reject
  \/ More
  \/ \E n \in 0..MaxLen : Less(n)
  \/ \E s \in {STATE_INITIAL, StateS} : Begin(s)
  \/ \E v \in {Undefined, Token} : ActionReturn(v)

Spec == Init /\ [][Next]_vars

\* ------------------------------------------------- scans without any rule

EchoAlphabet == {"a", "b", "\n"}

EchoSources == Strings(EchoAlphabet, MaxEchoLen)

\* new Lexer() with no rule (and possibly a further, exclusive, state),
\* echo replaced by a capturing function, setSource(source).
InitEcho ==
  /\ cfg \in {clear, addState(clear, StateS, TRUE)}
  /\ sink = "capture"
  /\ source \in EchoSources
  /\ given = source
  /\ RuntimeInit

\* lexAll() over the source, pass by pass.
NextEcho ==
  \/ LexAll
  \/ ScanBegin

SpecEcho == InitEcho /\ [][NextEcho]_vars

\* ------------------------------------------------------- selection scans

SelectAlphabet == {"a", "$", "\n"}

SelectSources == Strings(SelectAlphabet, MaxLen)

\* The patterns of the rule lists: literals (two of them made of "$"),
\* unanchored and anchored regular expressions.
Patterns == {Str(<<"$">>), Str(<<"$", "$">>), Str(<<"a">>), Re(<<".", ".">>), Re(<<".", ".", "$">>), Re(<<"^", "a">>)}

\* The rule lists of at most n different patterns, each an addRule() call
\* with an action.
RECURSIVE RuleLists(_)
RuleLists(n) == IF n = 0 THEN {<<>>} ELSE LET shorter == RuleLists(n - 1) IN shorter \cup {Append(l, DoAddRule(e, TRUE)) : l \in shorter, e \in Patterns}

Distinct(l) == \A i, j \in 1..Len(l) : i # j => l[i] # l[j]

SelectPrograms == {l \in RuleLists(MaxRules) : l # <<>> /\ Distinct(l)}

\* new Lexer(), the addRule() calls of one rule list, setSource(source).
InitSelect ==
  /\ cfg \in {Configure(clear, l) : l \in SelectPrograms}
  /\ sink = "stdout"
  /\ source \in SelectSources
  /\ given = source
  /\ RuntimeInit

\* lex() with actions that reject() or return.
NextSelect ==
  \/ Lex
  \/ ScanBegin
  \/ Reject
  \/ \E v \in {Undefined, Token} : ActionReturn(v)

SpecSelect == InitSelect /\ [][NextSelect]_vars

\* ------------------------------------- scans whose actions change the input

\* The configurations of SpecRefill: rules of INITIAL with actions, and an
\* EOF rule with an action, either in an exclusive state of its own or in
\* INITIAL itself.
RefillPrograms == {
  <<DoAddState(StateS, TRUE), DoAddRule(Str(<<"a">>), TRUE), DoAddRule(Re(<<"b", "+">>), TRUE), DoAddStateRule(In(StateS), Str(RULE_EOF), TRUE)>>,
  <<DoAddState(StateS, TRUE), DoAddRule(Str(RULE_EOF), TRUE), DoAddStateRule(In(StateS), Str(<<"a">>), TRUE)>>
  }

\* What the actions unput, and the sources they restart with.
UnputStrings == Strings({"b"}, 1)

RestartSources == {<<"a">>}

\* new Lexer(), the configuration calls of one program, setSource(source).
InitRefill ==
  /\ cfg \in {Configure(clear, p) : p \in RefillPrograms}
  /\ sink = "stdout"
  /\ source \in Sources
  /\ given = source
  /\ RuntimeInit

\* The scanner with actions that call unput, terminate,
\* restart, pushState and popState, and return undefined, a token or EOF.
NextRefill ==
  \/ Lex
  \/ ScanBegin
  \/ \E s \in UnputStrings : Unput(s)
  \/ Terminate
  \/ \E fresh \in BOOLEAN, newSource \in RestartSources : Restart(fresh, newSource)
  \/ PushState(StateS)
  \/ PopState
  \/ \E v \in {Undefined, Token, EOF} : ActionReturn(v)

SpecRefill == InitRefill /\ [][NextRefill]_vars

\* The scanner of SpecRefill with neither restart() nor terminate() called
\* by an action, and no action returning EOF: lex() returns EOF only
\* through the terminate() of scan() at end of input, and nothing installs
\* a source afterwards.
NextTerminated ==
  \/ Lex
  \/ ScanBegin
  \/ \E s \in UnputStrings : Unput(s)
  \/ \E v \in {Undefined, Token} : ActionReturn(v)

SpecTerminated == InitRefill /\ [][NextTerminated]_vars

\* The scanner of Spec with actions that call more and unput.
NextUnput ==
  \/ Lex
  \/ ScanBegin
  \/ More
  \/ \E s \in UnputStrings : Unput(s)
  \/ \E v \in {Undefined, Token} : ActionReturn(v)

SpecUnput == Init /\ [][NextUnput]_vars

\* --------------------------------------------- configuration calls, then scans

\* An inclusive state of the configurations built call by call.
StateT == "T"

\* The addState() calls: an exclusive state and an inclusive one.
StateCalls == {DoAddState(StateS, TRUE), DoAddState(StateT, FALSE)}

\* The rule calls, each pattern with a state spec of its own: addRule('a'),
\* addStateRule('S', 'b'), addStateRule('*', /ab/), all with actions.
RuleCalls == {DoAddRule(Str(<<"a">>), TRUE), DoAddStateRule(In(StateS), Str(<<"b">>), TRUE), DoAddStateRule(In(STATE_ANY), Re(<<"a", "b">>), TRUE)}

\* No lex() call has been made yet.
Configuring == pc = "idle" /\ pass.kind = "none"

\* addState(name, exclusive), called before the first lex().
CallAddState(c) ==
  /\ Configuring
  /\ cfg' = addState(cfg, c.name, c.excl)
  /\ UNCHANGED <<sink, given, Runtime, pc, mode, pass, result, tokens, output>>

\* addStateRule(states, expression, action) or addRule(expression, action),
\* called before the first lex(); the action is checked after the states and
\* the pattern and before any rule list is touched.
CallAddStateRule(c) ==
  /\ Configuring
  /\ \A st \in DOMAIN cfg.rules : Len(cfg.rules[st]) < MaxRules
  /\ cfg' = IF ActionThrows(c) THEN cfg ELSE addStateRule(cfg, c.spec, c.expression, c.action)
  /\ UNCHANGED <<sink, given, Runtime, pc, mode, pass, result, tokens, output>>

\* The sources scanned under the configurations built call by call.
ConfigSources == {<<"a", "a">>, <<"a", "b">>, <<"b", "a">>}

\* new Lexer(), setSource(source).
InitConfig ==
  /\ cfg = clear
  /\ sink = "stdout"
  /\ source \in ConfigSources
  /\ given = source
  /\ RuntimeInit

\* Configuration calls, then lex() with actions that call begin.
NextConfig ==
  \/ \E c \in StateCalls : CallAddState(c)
  \/ \E c \in RuleCalls : CallAddStateRule(c)
  \/ Lex
  \/ ScanBegin
  \/ \E s \in {StateS, StateT} : Begin(s)
  \/ \E v \in {Undefined, Token} : ActionReturn(v)

SpecConfig == InitConfig /\ [][NextConfig]_vars

\* ------------------------------------------------------- the two drivers

\* lex() and lexAll() over the configurations of Spec, with actions that
\* return undefined or one of two tokens.
NextDrivers ==
  \/ Lex
  \/ LexAll
  \/ ScanBegin
  \/ \E v \in {Undefined, Token, Token + 1} : ActionReturn(v)

SpecDrivers == Init /\ [][NextDrivers]_vars

\* ------------------------------------------------------- the state stack

\* A state name that is never registered.
StateU == "U"

\* The state arguments of the actions: none, registered states, a name that
\* is not registered, and an unregistered name that Object.prototype holds.
StateArgs == {NoArg, STATE_INITIAL, StateS, StateU} \cup ProtoKeys

\* The scanner of Spec with actions that call begin, switchState,
\* pushState, popState and topState.
NextStack ==
  \/ Lex
  \/ ScanBegin
  \/ \E s \in StateArgs : Begin(s)
  \/ \E s \in StateArgs : SwitchState(s)
  \/ \E s \in StateArgs : PushState(s)
  \/ PopState
  \/ TopState
  \/ \E v \in {Undefined, Token} : ActionReturn(v)

SpecStack == Init /\ [][NextStack]_vars

\* ------------------------------------------------------- reset and clear

\* A faulty reset(), which drops the configuration as clear() does.
ResetClears ==
  /\ pc \in {"idle", "thrown"}
  /\ cfg' = clear
  /\ ResetRuntime
  /\ UNCHANGED <<sink, given, pc, mode, pass, result, tokens, output>>

\* reset(), called between two lex() calls.
CallReset ==
  /\ pc \in {"idle", "thrown"}
  /\ ResetRuntime
  /\ UNCHANGED <<Installed, pc, mode, pass, result, tokens, output>>

\* clear(), called between two lex() calls: the configuration and the
\* runtime of a new Lexer().
CallClear ==
  /\ pc \in {"idle", "thrown"}
  /\ cfg' = clear
  /\ ResetRuntime
  /\ pc' = "idle"
  /\ pass' = NoPass
  /\ UNCHANGED <<sink, given, mode, result, tokens, output>>

\* addDefinition(name, expression), called before the first lex().
CallAddDefinition(name, expression) ==
  /\ Configuring
  /\ cfg' = addDefinition(cfg, name, expression)
  /\ UNCHANGED <<sink, given, Runtime, pc, mode, pass, result, tokens, output>>

\* setIgnoreCase(b), called before the first lex().
CallSetIgnoreCase(b) ==
  /\ Configuring
  /\ cfg' = setIgnoreCase(cfg, b)
  /\ UNCHANGED <<sink, given, Runtime, pc, mode, pass, result, tokens, output>>

\* setDebugEnabled(b), called before the first lex().
CallSetDebugEnabled(b) ==
  /\ Configuring
  /\ cfg' = setDebugEnabled(cfg, b)
  /\ UNCHANGED <<sink, given, Runtime, pc, mode, pass, result, tokens, output>>

\* The rule calls made before reset() and clear(): addRule('a') and
\* addStateRule('S', 'b'), with actions.
ResetCalls == {DoAddRule(Str(<<"a">>), TRUE), DoAddStateRule(In(StateS), Str(<<"b">>), TRUE)}

\* The definitions made before reset() and clear().
DefinitionNames == {"d"}

DefinitionExpressions == {Str(<<"a">>), Re(<<"b", "+">>)}

\* The source set after reset().
ResetSources == {<<"a", "b">>}

\* new Lexer(), setSource('ab').
InitReset ==
  /\ cfg = clear
  /\ sink = "stdout"
  /\ source \in ResetSources
  /\ given = source
  /\ RuntimeInit

\* Configuration calls, lex() with actions that call begin, then reset() or
\* clear() and setSource().
NextReset ==
  \/ CallAddState(DoAddState(StateS, TRUE))
  \/ \E c \in ResetCalls : CallAddStateRule(c)
  \/ \E n \in DefinitionNames, e \in DefinitionExpressions : CallAddDefinition(n, e)
  \/ \E b \in BOOLEAN : CallSetIgnoreCase(b)
  \/ \E b \in BOOLEAN : CallSetDebugEnabled(b)
  \/ CallReset
  \/ CallClear
  \/ \E s \in ResetSources : SetSource(s)
  \/ Lex
  \/ ScanBegin
  \/ Begin(StateS)
  \/ \E v \in {Undefined, Token} : ActionReturn(v)

SpecReset == InitReset /\ [][NextReset]_vars

\* ------------------------------------------------------- rule registration

\* addStateRule() calls, valid and invalid: a list of registered states, a
\* RegExp with the flag u, an unregistered state, a list with one
\* unregistered state, a list of empty names, an empty pattern, a RegExp
\* with the flag g, an action that is a string, a list with an inherited name.
RegisterCalls == {
  DoAddStateRule(List(<<STATE_INITIAL, StateS>>), Str(<<"a">>), TRUE),
  DoAddStateRule(In(StateS), ReFlags(<<"b">>, <<"u">>), FALSE),
  DoAddStateRule(In(StateU), Str(<<"a">>), TRUE),
  DoAddStateRule(List(<<STATE_INITIAL, StateU>>), Str(<<"a">>), TRUE),
  DoAddStateRule(List(<<"">>), Str(<<"a">>), TRUE),
  DoAddStateRule(In(STATE_INITIAL), Str(<<>>), TRUE),
  DoAddStateRule(In(STATE_INITIAL), ReFlags(<<"a">>, <<"g">>), TRUE),
  DoAddStateRuleWith(In(STATE_INITIAL), Str(<<"a">>), "string"),
  DoAddStateRule(List(<<STATE_INITIAL, "constructor">>), Str(<<"b">>), TRUE)
  }

\* Configuration calls, valid and invalid, then lex().
NextRegister ==
  \/ \E c \in StateCalls : CallAddState(c)
  \/ \E c \in RegisterCalls : CallAddStateRule(c)
  \/ Lex
  \/ ScanBegin
  \/ \E v \in {Undefined, Token} : ActionReturn(v)

SpecRegister == InitConfig /\ [][NextRegister]_vars

\* ------------------------------------------------------- reading ahead

\* The counts input() is called with, from none to more than any source has.
InputArgs == 0..MaxSource

\* lex() over the configurations of Spec, with actions that call input(),
\* reject() and more().
NextInput ==
  \/ Lex
  \/ ScanBegin
  \/ Reject
  \/ More
  \/ \E n \in InputArgs : Input(n)
  \/ \E v \in {Undefined, Token} : ActionReturn(v)

SpecInput == Init /\ [][NextInput]_vars

\* ------------------------------------------------------- end-of-file rules

\* Configurations with several EOF rules in one state: an exclusive state S
\* with a literal rule and two EOF rules, entered by begin; and INITIAL with
\* an EOF rule before and after a literal rule.
EOFPrograms == {
  <<DoAddState(StateS, TRUE), DoAddRule(Str(<<"a">>), TRUE), DoAddStateRule(In(StateS), Str(<<"b">>), TRUE), DoAddStateRule(In(StateS), Str(RULE_EOF), TRUE), DoAddStateRule(In(StateS), Str(RULE_EOF), TRUE)>>,
  <<DoAddRule(Str(RULE_EOF), TRUE), DoAddRule(Str(<<"a">>), TRUE), DoAddRule(Str(RULE_EOF), TRUE)>>
  }

\* new Lexer(), the configuration calls of one program, setSource(source).
InitEOF ==
  /\ cfg \in {Configure(clear, p) : p \in EOFPrograms}
  /\ sink = "stdout"
  /\ source \in Sources
  /\ given = source
  /\ RuntimeInit

\* lex() with actions that call reject, more and begin.
NextEOF ==
  \/ Lex
  \/ ScanBegin
  \/ Reject
  \/ More
  \/ \E s \in {STATE_INITIAL, StateS} : Begin(s)
  \/ \E v \in {Undefined, Token} : ActionReturn(v)

SpecEOF == InitEOF /\ [][NextEOF]_vars

\* ------------------------------------------------------- empty matches

\* Configurations with a rule that can match the empty string: /a*/ alone,
\* /a*/ after a literal, and the anchored /^a*/.
EmptyPrograms == {
  <<DoAddRule(Re(<<"a", "*">>), TRUE)>>,
  <<DoAddRule(Str(<<"b">>), TRUE), DoAddRule(Re(<<"a", "*">>), TRUE)>>,
  <<DoAddRule(Re(<<"^", "a", "*">>), TRUE)>>
  }

\* new Lexer(), the addRule() calls of one program, setSource(source).
InitEmpty ==
  /\ cfg \in {Configure(clear, p) : p \in EmptyPrograms}
  /\ sink = "stdout"
  /\ source \in Sources
  /\ given = source
  /\ RuntimeInit

\* lex() and lexAll() with actions that call reject.
NextEmpty ==
  \/ Lex
  \/ LexAll
  \/ ScanBegin
  \/ Reject
  \/ \E v \in {Undefined, Token} : ActionReturn(v)

SpecEmpty == InitEmpty /\ [][NextEmpty]_vars

\* ------------------------------------------------------- repeated addState

\* addState() calls that name a state twice, with either flag, and INITIAL.
RepeatCalls == {DoAddState(StateS, TRUE), DoAddState(StateS, FALSE), DoAddState(STATE_INITIAL, TRUE)}

\* Configuration calls with repeated names, then lex() with actions that
\* call begin.
NextRepeat ==
  \/ \E c \in RepeatCalls : CallAddState(c)
  \/ \E c \in ResetCalls : CallAddStateRule(c)
  \/ Lex
  \/ ScanBegin
  \/ Begin(StateS)
  \/ \E v \in {Undefined, Token} : ActionReturn(v)

SpecRepeat == InitConfig /\ [][NextRepeat]_vars

\* ------------------------------------------------------- debug mode

\* The configurations scanned with and without debug: those of Spec and
\* those with EOF rules.
DebugPrograms == Programs \cup EOFPrograms

\* new Lexer(), setDebugEnabled(d), the configuration calls of one program,
\* setSource(source).
InitDebug ==
  /\ cfg \in {setDebugEnabled(Configure(clear, p), d) : p \in DebugPrograms, d \in BOOLEAN}
  /\ sink = "stdout"
  /\ source \in Sources
  /\ given = source
  /\ RuntimeInit

\* lex() and lexAll() with actions that call reject and begin.
NextDebug ==
  \/ Lex
  \/ LexAll
  \/ ScanBegin
  \/ Reject
  \/ \E s \in {STATE_INITIAL, StateS} : Begin(s)
  \/ \E v \in {Undefined, Token} : ActionReturn(v)

SpecDebug == InitDebug /\ [][NextDebug]_vars

\* ------------------------------------------------------- every call

\* Configuration calls, lex() with actions that call begin, switchState,
\* pushState, popState, terminate and restart, and reset() and clear()
\* between lex() calls.
NextCalls ==
  \/ CallAddState(DoAddState(StateS, TRUE))
  \/ \E c \in ResetCalls : CallAddStateRule(c)
  \/ Lex
  \/ ScanBegin
  \/ \E s \in StateArgs : Begin(s)
  \/ \E s \in StateArgs : SwitchState(s)
  \/ \E s \in StateArgs : PushState(s)
  \/ PopState
  \/ Terminate
  \/ \E fresh \in BOOLEAN, newSource \in RestartSources : Restart(fresh, newSource)
  \/ CallReset
  \/ CallClear
  \/ \E v \in {Undefined, Token} : ActionReturn(v)

SpecCalls == InitReset /\ [][NextCalls]_vars

\* ------------------------------------------------------- termination of lex()

\* The action returns, with whatever value.
ActionReturns == \E v \in {Undefined, Token} : ActionReturn(v)

\* lex() over the configurations of Spec, whose rules match no empty
\* string, with actions that call echo, more, reject, begin, switchState,
\* pushState and popState only.
NextProgress ==
  \/ Lex
  \/ ScanBegin
  \/ Echo
  \/ More
  \/ Reject
  \/ \E s \in {STATE_INITIAL, StateS} : Begin(s)
  \/ \E s \in {STATE_INITIAL, StateS} : SwitchState(s)
  \/ \E s \in {STATE_INITIAL, StateS} : PushState(s)
  \/ PopState
  \/ ActionReturns

\* The loop of lex() calls scan() again and an action runs to its return:
\* neither stops half way.
SpecProgress == Init /\ [][NextProgress]_vars /\ WF_vars(ScanBegin) /\ WF_vars(ActionReturns)

\* reject(), called by an action that has not called it before.
RejectFirst == "reject" \notin pass.calls /\ Reject

\* The same with actions that call reject() at most once.
NextRejectOnce ==
  \/ Lex
  \/ ScanBegin
  \/ Echo
  \/ More
  \/ RejectFirst
  \/ \E s \in {STATE_INITIAL, StateS} : Begin(s)
  \/ \E s \in {STATE_INITIAL, StateS} : SwitchState(s)
  \/ \E s \in {STATE_INITIAL, StateS} : PushState(s)
  \/ PopState
  \/ ActionReturns

SpecRejectOnce == Init /\ [][NextRejectOnce]_vars /\ WF_vars(ScanBegin) /\ WF_vars(ActionReturns)

\* ------------------------------------------------------------------ claims

\* The rule list the running (or last) pass selected from.
PassRules == RulesOf(pass.state)

\* What rule k of that list matches at the cursor the pass began at.
RawMatch(k) == execRegExp(PassRules[k].expression, source, pass.start)

\* The rules that were not rejected when the pass began and match there.
Candidates == {k \in 1..Len(PassRules) : (\A i \in 1..Len(pass.rejected) : pass.rejected[i] # k) /\ ~PassRules[k].isEOF /\ RawMatch(k) # NoMatch}

\* A rule with a ^ or $ anchor: a regular expression that begins with ^ or
\* ends with $ (a literal string has no anchor, whatever characters it is
\* made of).
HasAnchor(rule) == rule.fixedWidth = NoWidth /\ (rule.hasBOL \/ rule.hasEOL)

\* A pass has selected a rule away from the end of input and its action runs.
Selected == pc = "action" /\ pass.kind = "rule" /\ ~pass.isEOF

\* C1 (longest match): when no rule of the active state has a ^ or $
\* anchor, the match of the selected rule is at least as long as the match
\* of every other non-rejected rule of the state at that cursor.
C1_LongestMatch == (Selected /\ \A k \in 1..Len(PassRules) : ~HasAnchor(PassRules[k])) => \A k \in Candidates : Len(pass.matchedValue) >= Len(RawMatch(k))

\* The effective length of a match m of a rule: the length of m, plus 1 if
\* the rule has ^, plus 1 if it has $.
Weight(rule, m) == Len(m) + (IF HasAnchor(rule) /\ rule.hasBOL THEN 1 ELSE 0) + (IF HasAnchor(rule) /\ rule.hasEOL THEN 1 ELSE 0)

\* The candidates of the greatest effective length.
Heaviest == {k \in Candidates : \A j \in Candidates : Weight(PassRules[j], RawMatch(j)) <= Weight(PassRules[k], RawMatch(k))}

\* C2 (order tie-break): when several non-rejected rules produce the same
\* effective length at the cursor and no rule a greater one, the selected
\* rule is the one of them that was registered first.
C2_OrderTieBreak == (Selected /\ Cardinality(Heaviest) >= 2) => (pass.matchedIndex \in Heaviest /\ \A k \in Heaviest : pass.matchedIndex <= k)

\* C3 (anchor weight): when an anchored and an unanchored rule match the
\* same raw length at the cursor, the unanchored one is not the rule
\* selected, whichever of the two was registered first.
C3_AnchorWeight == Selected => \A a, u \in Candidates : (HasAnchor(PassRules[a]) /\ ~HasAnchor(PassRules[u]) /\ Len(RawMatch(a)) = Len(RawMatch(u))) => pass.matchedIndex # u

\* The texts of one echo() call per character of s, in order.
Chars(s) == [k \in 1..Len(s) |-> <<s[k]>>]

\* C4 (default echo totality): lexAll() of a scanner without rules calls
\* echo once per character of the source, the k-th call with the k-th
\* character as text, and ends with EOF and an empty token list.
C4_DefaultEchoTotality ==
  /\ (pc = "scan" /\ source = given) => (output = Chars(SubSeq(given, 1, index)) /\ tokens = <<>>)
  /\ (pc = "idle" /\ pass.kind # "none") => (output = Chars(given) /\ tokens = <<>> /\ result = EOF /\ pass.kind = "eof")

\* A rule-less lexAll() over a source of the greatest length has ended.
C4_Witness == pc = "idle" /\ mode = "lexAll" /\ result = EOF /\ Len(given) = MaxEchoLen /\ Len(output) = MaxEchoLen /\ cfg.rules[STATE_INITIAL] = <<>>

\* A pass has ended (without an exception) and the next has not begun.
Between == pc \in {"scan", "idle"} /\ pass.done /\ ~pass.threw

\* C5 (cursor invariant): between passes 0 <= index <= |source|.
C5_CursorInvariant == Between => (0 <= index /\ index <= Len(source))

\* The action of the last pass called reject() once, and besides it only
\* functions that leave the cursor alone.
RejectedOnce == pass.kind = "rule" /\ "reject" \in pass.calls /\ pass.calls \subseteq {"reject", "echo", "more", "begin"} /\ pass.made = Cardinality(pass.calls)

\* C6 (reject retry): a pass whose action called reject() once yields no
\* token whatever the action returned, leaves the cursor where the pass
\* began, and leaves the rule in the rejected set for the next pass.
C6_RejectRetry == (Between /\ RejectedOnce) => (pc = "scan" /\ pass.yield = Undefined /\ index = pass.start /\ rejectedRules # <<>> /\ rejectedRules[Len(rejectedRules)] = pass.matchedIndex /\ Len(rejectedRules) = pass.rejectedBefore + 1)

\* A pass that began past the start of the source with a carried-over text
\* has been rejected.
C6_Witness == Between /\ RejectedOnce /\ pass.carry /\ pass.kept # <<>> /\ pass.matchedValue # <<>> /\ pass.start > 0 /\ index = pass.start

\* The pass p selected before the pass q in the order of C7: a greater
\* effective length, or the same and registered earlier.
Precedes(p, q) == Weight(p.matchedRule, p.matchedValue) > Weight(q.matchedRule, q.matchedValue) \/ (Weight(p.matchedRule, p.matchedValue) = Weight(q.matchedRule, q.matchedValue) /\ p.matchedIndex < q.matchedIndex)

\* C7 (reject exhaustion, the order): when the action of the selected rule
\* called reject() and nothing else, and the next pass selects a rule at the
\* same cursor and state, that rule is another one, of a smaller
\* effective length or of the same and registered later.
C7_RejectOrder == [][(pc = "scan" /\ pass.kind = "rule" /\ ~pass.isEOF /\ pass.calls = {"reject"} /\ pass.made = 1 /\ pc' = "action" /\ pass'.start = pass.start /\ pass'.state = pass.state) => Precedes(pass, pass')]_vars

\* C8 (the rejected set is cleared): after a pass that advanced the cursor
\* and did not call reject() - a rule action or the default echo - the
\* rejected set is empty when the next pass begins.
C8_RejectedCleared == (Between /\ pass.kind \in {"rule", "echo"} /\ "reject" \notin pass.calls /\ index > pass.start) => rejectedRules = <<>>

\* The last pass selected a rule, without a text carried over, its action
\* called more() (and nothing that changes text), and this pass selects a rule.
AfterMore == pass.kind = "rule" /\ ~pass.threw /\ ~pass.carry /\ "more" \in pass.calls /\ pass.calls \subseteq {"more", "echo", "begin", "reject"} /\ pc' = "action"

\* This pass selects a rule and no more() call preceded it.
Afresh == ~readMore /\ pc' = "action"

\* C9 (more() concatenation): when the action of a match called more() and
\* the next pass selects a rule, the text of the second action is the first
\* match followed by the second; every pass resets readMore, and a pass
\* entered without readMore starts its text afresh.
C9_MoreConcatenation == [][(pc = "scan" /\ pc' # "thrown") => (readMore' = FALSE /\ (AfterMore => text' = pass.matchedValue \o pass'.matchedValue) /\ (Afresh => text' = pass'.matchedValue))]_vars

\* The action of a second match sees the text of the first before its own.
C9_Witness == pc = "action" /\ pass.kind = "rule" /\ pass.carry /\ pass.kept # <<>> /\ pass.matchedValue # <<>> /\ text = pass.kept \o pass.matchedValue

\* C10 (consumed length): a pass that selected a rule away from the end of
\* input, and whose action called none of reject, less, input, unput,
\* restart, terminate, leaves the cursor the length of the match past the
\* cursor it began at.
C10_ConsumedLength == (Between /\ pass.kind = "rule" /\ ~pass.isEOF /\ pass.calls \cap {"reject", "less", "input", "unput", "restart", "terminate"} = {}) => index = pass.start + Len(pass.matchedValue)

\* The text of the running pass before its action changed it: what was
\* carried over followed by the match.
Matched == pass.kept \o pass.matchedValue

\* The action of the running pass has called less() once and nothing else.
LessOnly == pc = "action" /\ pass.kind = "rule" /\ pass.calls = {"less"} /\ pass.made = 1

\* C11 (less(n) inverse): after less(n) text is its own first n characters
\* and the characters given back are the ones the next pass scans: they
\* stand in the source from the cursor on.
C11_LessInverse == LessOnly => (text = Substr(Matched, 0, Len(text)) /\ Substr(source, index, Len(Matched) - Len(text)) = SubstrFrom(Matched, Len(text)))

\* C12 (unput round-trip): after unput(s) what the next pass scans, the
\* source from the cursor on, is s followed by what was still unread.
C12_UnputRoundTrip == [][\A s \in UnputStrings : Unput(s) => SubstrFrom(source', index') = s \o SubstrFrom(source, index)]_vars

\* The exclusive states of the configuration.
ExclusiveStates == {E \in DOMAIN cfg.exclusive : cfg.exclusive[E]}

\* The rules of the calls that name state E and no other, and the rules of
\* the calls that name E or every state (*).
CalledOnlyFor(E) == {MakeRule(c.expression, c.action) : c \in {d \in RuleCalls : d.spec = In(E)}}

CalledFor(E) == {MakeRule(c.expression, c.action) : c \in {d \in RuleCalls : d.spec \in {In(E), In(STATE_ANY)}}}

Built(c) == MakeRule(c.expression, c.action)

Holds(st, rule) == Len(SelectSeq(RulesOf(st), LAMBDA r : r = rule))

HasEOFRule == \E k \in 1..Len(PassRules) : PassRules[k].isEOF

\* C15 (EOF rules before end of input): a pass that begins away from the
\* end of input in a state whose rule list holds an EOF rule raises no
\* error in its selection and does not select the EOF rule.
C15_EOFRulesIdle == (pass.kind # "none" /\ ~pass.isEOF /\ HasEOFRule) => (pass.kind # "threw" /\ ~pass.matchedRule.isEOF)

\* The action of an EOF rule, selected by a pass entered at end of input,
\* is running and has not called reject.
InEOFAction == pc = "action" /\ pass.kind = "rule" /\ pass.isEOF /\ pass.matchedRule.isEOF /\ "reject" \notin pass.calls

\* The pass before the one about to begin was entered at end of input,
\* selected an EOF rule, and its action refilled the input without reject.
AfterRefill == pc = "scan" /\ pass.kind = "rule" /\ pass.isEOF /\ pass.matchedRule.isEOF /\ pass.done /\ ~pass.threw /\ "reject" \notin pass.calls /\ index < Len(source)

\* What the return of an EOF action does: when the action of an EOF rule
\* returns v without having called reject, then if the cursor is still at
\* or past the end of the source the scanner is terminated and lex()
\* returns EOF, whatever v; otherwise the pass yields v, source and cursor
\* stay as the action left them, and lex() loops if v is undefined and
\* returns v if not.
EOFActionReturn == \A v \in {Undefined, Token, EOF} : (InEOFAction /\ ActionReturn(v)) => IF index >= Len(source) THEN (pass'.yield = EOF /\ result' = EOF /\ pc' = "idle" /\ source' = <<>> /\ index' = 0) ELSE (pass'.yield = v /\ source' = source /\ index' = index /\ pc' = (IF v = Undefined THEN "scan" ELSE "idle") /\ (v # Undefined => result' = v))

\* The return of an EOF action alone.
C16_ReturnOnly == [][EOFActionReturn]_vars

\* C16 (EOF re-evaluation): the return of an EOF action terminates the
\* scanner if the cursor is still at the end of the source and yields the
\* action's value if the action refilled the input, and after a refill
\* scanning continues: the next pass scans the refilled input, selecting a
\* rule or echoing.
C16_EOFReevaluation == [][EOFActionReturn /\ (AfterRefill => pass'.kind \in {"rule", "echo"})]_vars

\* An EOF action unput a character and returned a token, which the pass
\* yielded with the cursor inside the source.
C16_Witness == pass.kind = "rule" /\ pass.isEOF /\ pass.matchedRule.isEOF /\ pass.done /\ ~pass.threw /\ "unput" \in pass.calls /\ pass.yield = Token /\ result = Token /\ index < Len(source)

\* A lex() call returns: scan() yields a token or EOF to the driver.
LexReturns == pc \in {"scan", "action"} /\ pc' = "idle"

\* C17 (the start condition survives the end of a scan): when lex() returns,
\* with a token or with EOF, state is what it was at that moment.
C17_StateSurvives == [][LexReturns => state' = state]_vars

\* The same for the lex() calls that return a token.
C17_TokenOnly == [][(LexReturns /\ result' # EOF) => state' = state]_vars

\* scan() ends in terminate(): at end of input with no rule selected, or
\* after the action of an EOF rule that neither rejected nor refilled.
DriverTerminates == \/ pc = "scan" /\ pass'.kind = "eof"
                    \/ pc = "action" /\ pass'.done /\ ~pass'.threw /\ pass.isEOF /\ Len(rejectedRules) = pass.rejectedBefore /\ index >= Len(source)

C19_TerminatedStays == [][result = EOF => result' = EOF]_vars

ScanReturns == pc \in {"scan", "action"} /\ pass'.done /\ ~pass'.threw

\* What lex() does with what scan() yields: it goes on while that is
\* undefined and returns it otherwise.
LexLoop == (ScanReturns /\ mode = "lex") => (tokens' = tokens /\ IF pass'.yield = Undefined THEN (pc' = "scan" /\ result' = result) ELSE (pc' = "idle" /\ result' = pass'.yield))

\* What lexAll() does with it: it appends a token and goes on, and returns
\* at EOF.
LexAllLoop == (ScanReturns /\ mode = "lexAll") => (tokens' = (IF pass'.yield \in {Undefined, EOF} THEN tokens ELSE Append(tokens, pass'.yield)) /\ IF pass'.yield = EOF THEN (pc' = "idle" /\ result' = EOF) ELSE pc' = "scan")

\* C21 (lex() resumes and returns a token or EOF): a lex() or lexAll() call
\* starts from the runtime the previous call left; lex() goes on while
\* scan() yields undefined and returns what scan() yields otherwise, never
\* undefined; lexAll() appends every token a pass yields, in the order of
\* the passes, and returns at the first EOF.
C21_LexResumes == [][((pc \in {"idle", "thrown"} /\ pc' = "scan") => UNCHANGED Runtime) /\ LexLoop /\ LexAllLoop /\ (pc' = "idle" => result' # Undefined)]_vars

\* lexAll() has returned two different tokens, in the order of their passes.
C21_Witness == mode = "lexAll" /\ pc = "idle" /\ result = EOF /\ Len(tokens) = 2 /\ tokens[1] = Token + 1 /\ tokens[2] = Token

\* The last pass began away from the end of input and selected no rule.
Unmatched == pass.kind \in {"echo", "threw"} /\ ~pass.isEOF

\* C22 (the default rule): a pass that begins away from the end of input
\* and selects no rule raises no error: it is a default echo, which appends
\* the one character at the cursor to text, advances the cursor by one and
\* yields undefined.
C22_DefaultRule == Unmatched => (pass.kind = "echo" /\ pc # "thrown" /\ text = pass.kept \o Substr(source, pass.start, 1) /\ Len(text) = Len(pass.kept) + 1 /\ index = pass.start + 1 /\ pass.yield = Undefined)

\* The step is a call of begin, switchState or pushState with the state
\* argument s.
StateCall(s) == Begin(s) \/ SwitchState(s) \/ PushState(s)

\* The call fails: an exception leaves the action, state and stack as they
\* were.
FailsUnchanged == pc' = "thrown" /\ state' = state /\ stateStack' = stateStack

\* C23 (unregistered states): begin, switchState and pushState with a state
\* that no addState() call registered fail with an error and leave state
\* and the state stack as they were; begin and switchState without an
\* argument set state to INITIAL.
C23_UnknownStateFails == [][\A s \in StateArgs : ((StateCall(s) /\ s # NoArg /\ ~Registered(s)) => FailsUnchanged) /\ (((Begin(s) \/ SwitchState(s)) /\ s = NoArg) => (state' = STATE_INITIAL /\ stateStack' = stateStack /\ pc' = "action"))]_vars

\* The same for the names that Object.prototype does not hold.
C23_OwnNames == [][\A s \in StateArgs \ ProtoKeys : ((StateCall(s) /\ s # NoArg /\ ~Registered(s)) => FailsUnchanged) /\ (((Begin(s) \/ SwitchState(s)) /\ s = NoArg) => (state' = STATE_INITIAL /\ stateStack' = stateStack /\ pc' = "action"))]_vars

\* C24 (popState and topState on an empty stack): popState() on an empty
\* stack fails with an error and leaves state and the stack as they were;
\* topState() never fails and never changes state or the stack, and returns
\* undefined on an empty stack and the top of the stack otherwise.
C24_EmptyStack == [][((PopState /\ stateStack = <<>>) => FailsUnchanged) /\ (TopState => (pc' = "action" /\ state' = state /\ stateStack' = stateStack /\ pass'.got = (IF stateStack = <<>> THEN UndefinedValue ELSE StateValue(stateStack[Len(stateStack)]))))]_vars

\* An action called topState() on the empty stack, which returned undefined,
\* and then popState(), which threw.
C24_Witness == pc = "thrown" /\ pass.calls = {"topState", "popState"} /\ pass.made = 2 /\ pass.got = UndefinedValue /\ stateStack = <<>> /\ state = pass.state

\* The running action has made only calls of one API function so far, none
\* of which threw.
OnlyCalls(name) == pc = "action" /\ pass.calls = {name}

\* What a run of pushState() calls leaves: the stack the pass began with,
\* then the state it began in, then one entry for each further call.
Pushed == OnlyCalls("pushState") => (Len(stateStack) = Len(pass.stack) + pass.made /\ SubSeq(stateStack, 1, Len(pass.stack) + 1) = Append(pass.stack, pass.state))

\* What a run of popState() calls leaves: the state is the entry that was
\* pushed last among those popped, and the stack is what lies below it.
Popped == OnlyCalls("popState") => (pass.made <= Len(pass.stack) /\ state = pass.stack[Len(pass.stack) - pass.made + 1] /\ stateStack = SubSeq(pass.stack, 1, Len(pass.stack) - pass.made))

\* C25 (state stack round-trip): popState() right after a pushState(s) that
\* succeeded restores state and the stack to what they were before the
\* push; runs of pushes stack the states in order and runs of pops bring
\* them back last in, first out.
C25_StackRoundTrip == [][((OnlyCalls("pushState") /\ pass.made = 1 /\ PopState) => (state' = pass.state /\ stateStack' = pass.stack /\ pc' = "action")) /\ Pushed /\ Popped]_vars

\* An action popped twice from a stack of two: the state pushed first is
\* back, after the one pushed second, and the stack is empty.
C25_Witness == OnlyCalls("popState") /\ pass.made = 2 /\ pass.stack = <<STATE_INITIAL, StateS>> /\ state = STATE_INITIAL /\ stateStack = <<>>

\* The addStateRule() call c raises an error in the configuration reached.
Throws(c) == addStateRuleThrows(cfg, c.spec, c.expression) \/ ActionThrows(c) \/ PushThrows(cfg, c.spec)

\* The call c fails one of the checks made before the rule is built.
Invalid(c) == addStateRuleThrows(cfg, c.spec, c.expression) \/ ActionThrows(c)

\* C26 (atomic failure of registration): an addStateRule() call that raises
\* an error - no state left to add to, an unregistered state alone or in a
\* list, an empty pattern, a RegExp flag other than i and u, an action that
\* is no function - leaves every rule list as it was.
C26_AtomicFailure == [][\A c \in RegisterCalls : (CallAddStateRule(c) /\ Throws(c)) => cfg' = cfg]_vars

\* The part that holds: a call that fails a check keeps every rule list.
C26_InvalidUnchanged == [][\A c \in RegisterCalls : (CallAddStateRule(c) /\ Invalid(c)) => cfg' = cfg]_vars

\* A list of which only one state is unregistered is refused while the
\* registered state of the list already holds rules.
C26_Witness == Configuring /\ StateS \in DOMAIN cfg.rules /\ Len(cfg.rules[STATE_INITIAL]) > 0 /\ Len(cfg.rules[StateS]) > 1
\* What input(n) is to do at the cursor: return the k = min(n, |source| -
\* index) characters that follow the cursor, move the cursor by k, and keep
\* text, state and source.
Reads(n) == LET k == Min(n, Len(source) - index) IN (pass'.got.kind = "text" /\ Len(pass'.got.chars) = k /\ (\A j \in 1..k : (index + j \in 1..Len(source) /\ pass'.got.chars[j] = source[index + j])) /\ index' = index + k /\ text' = text /\ state' = state /\ source' = source)

\* C27 (input): input(n) returns the min(n, |source| - index) characters at
\* the cursor, nothing at the end of input, advances the cursor by the
\* length returned and changes neither text, state nor source.
C27_InputReads == [][\A n \in InputArgs : Input(n) => Reads(n)]_vars

\* The part that holds: input(n) with the cursor inside the source or at
\* its end.
C27_InRange == [][\A n \in InputArgs : (Input(n) /\ index >= 0 /\ index <= Len(source)) => Reads(n)]_vars

\* input() has read the character left and, called again, nothing.
C27_Witness == pc = "action" /\ pass.calls = {"input"} /\ pass.made = 2 /\ pass.got = TextValue(<<>>) /\ index = Len(source) /\ source = <<"a", "b">> /\ pass.start = 0
\* The action of a rule selected before the end of input has called
\* terminate().
TerminatedInAction == pc = "action" /\ ~pass.isEOF /\ "terminate" \in pass.calls

\* C28 (terminate in an action): when an action running before the end of
\* input has called terminate(), the lex() call around it returns EOF and
\* yields no token.
C28_TerminateEndsScan == [][(TerminatedInAction /\ LexReturns /\ ~pass'.threw) => (result' = EOF /\ tokens' = tokens)]_vars

\* The part that holds: an action that returns what terminate() returned
\* makes lex() return EOF with the source emptied and the cursor at 0, so
\* that nothing of the old input is left to scan or echo.
C28_ReturnTerminate == [][(TerminatedInAction /\ pass.calls = {"terminate"} /\ ActionReturn(EOF)) => (pc' = "idle" /\ result' = EOF /\ tokens' = tokens /\ source' = <<>> /\ index' = 0 /\ output' = output)]_vars

\* terminate() was called with input left and lex() has returned EOF.
C28_Witness == pc = "idle" /\ pass.calls = {"terminate"} /\ ~pass.isEOF /\ pass.start < Len(given) - 1 /\ result = EOF /\ source = <<>>
\* The runtime is the one a new scanner starts with, on an empty source.
FreshRuntime == source = <<>> /\ index = 0 /\ text = UndefText /\ state = STATE_INITIAL /\ stateStack = <<>> /\ rejectedRules = <<>> /\ readMore = FALSE

\* The configuration holds the inclusive INITIAL state and nothing else.
FreshConfig == cfg.order = <<STATE_INITIAL>> /\ DOMAIN cfg.exclusive = {STATE_INITIAL} /\ ~cfg.exclusive[STATE_INITIAL] /\ DOMAIN cfg.rules = {STATE_INITIAL} /\ cfg.rules[STATE_INITIAL] = <<>> /\ cfg.definitions = {} /\ ~cfg.ignoreCase /\ ~cfg.debugEnabled

\* C29 (reset and clear): reset() puts the runtime back to its start and
\* keeps the states, definitions, rule lists and options as they were;
\* clear() does the same to the runtime and leaves a configuration of one
\* inclusive INITIAL state without rules, definitions or options.
C29_ResetKeepsRules == [][(CallReset => (cfg' = cfg /\ FreshRuntime')) /\ (CallClear => (FreshConfig' /\ FreshRuntime'))]_vars

\* reset() was called after a lex() that returned a token in the middle of
\* the source and in state S, in a configuration with a rule of S, a
\* definition and an option set.
C29_Witness == pc = "idle" /\ FreshRuntime /\ result = Token /\ pass.calls = {"begin"} /\ pass.start = 0 /\ Len(cfg.rules[StateS]) = 1 /\ cfg.definitions # {} /\ cfg.ignoreCase

\* clear() has removed a configuration that a scan had used.
C29_ClearWitness == FreshConfig /\ FreshRuntime /\ result = EOF /\ pass.kind = "none"
\* Rule k of the active state is the rule the last pass selected, whose
\* action called reject(), or a rule that pass skipped already, and the
\* cursor is where that pass began.
RejectedHere(k) == pass.kind = "rule" /\ pass.start = index /\ k \in 1..Len(RulesOf(pass.state)) /\ RulesOf(pass.state)[k] = ActiveRules[k] /\ ((k = pass.matchedIndex /\ "reject" \in pass.calls) \/ \E i \in 1..Len(pass.rejected) : pass.rejected[i] = k)

\* C30 (what a pass skips): a pass skips a rule of its state only if that
\* rule was selected at the current cursor and its action called reject();
\* no other rule is skipped, also after an action that called reject() and
\* begin().
C30_OnlyRejected == [][ScanBegin => \A j \in 1..Len(rejectedRules) : (rejectedRules[j] \in 1..Len(ActiveRules) => RejectedHere(rejectedRules[j]))]_vars

\* C30, the case of reject() with begin(): the pass that follows in the new
\* state skips no rule but the one rejected.
C30_AfterBegin == [][(ScanBegin /\ pass.kind = "rule" /\ pass.calls = {"reject", "begin"} /\ pass.rejected = <<>> /\ state # pass.state) => \A j \in 1..Len(rejectedRules) : (rejectedRules[j] \in 1..Len(ActiveRules) => ActiveRules[rejectedRules[j]] = pass.matchedRule)]_vars

\* The part that holds: after an action that called reject() once and
\* nothing else, the next pass begins at the same cursor in the same state
\* and skips the rule rejected and what the pass before it skipped.
C30_RejectOnce == [][(ScanBegin /\ pass.kind = "rule" /\ pass.calls = {"reject"} /\ pass.made = 1) => (index = pass.start /\ state = pass.state /\ rejectedRules = Append(pass.rejected, pass.matchedIndex))]_vars

\* A pass that follows reject() and begin(S) skips the rule of S that has
\* the index of the rule rejected in INITIAL, and echoes.
C30_Witness == pass.kind = "echo" /\ pass.state = StateS /\ pass.rejected = <<1>> /\ pass.start = 0 /\ Len(RulesOf(StateS)) = 1 /\ execRegExp(RulesOf(StateS)[1].expression, given, 0) # NoMatch
\* The EOF rules of the pass's state that were not rejected when it began.
EOFCandidates == {k \in 1..Len(PassRules) : PassRules[k].isEOF /\ \A i \in 1..Len(pass.rejected) : pass.rejected[i] # k}

\* A pass entered at the end of input selects the first EOF rule left, with
\* an empty match, and terminates when none is left.
EOFSelection == (pass.kind # "none" /\ pass.isEOF /\ ~pass.threw) => IF EOFCandidates = {} THEN (pass.kind = "eof" /\ pass.done /\ pass.yield = EOF) ELSE (pass.kind = "rule" /\ pass.matchedRule.isEOF /\ pass.matchedValue = <<>> /\ pass.matchedIndex \in EOFCandidates /\ \A k \in EOFCandidates : pass.matchedIndex <= k)

\* The pass that follows an EOF action that called reject() is again at the
\* end of input and skips the rule rejected.
EOFRejectMovesOn == (pc = "scan" /\ pass.isEOF /\ pass.kind = "rule" /\ "reject" \in pass.calls /\ ScanBegin) => (pass'.isEOF /\ ~pass'.threw /\ (pass'.state = pass.state => pass'.matchedIndex # pass.matchedIndex))

\* The same after an EOF action that called reject() once and nothing else.
EOFRejectOnce == (pc = "scan" /\ pass.isEOF /\ pass.kind = "rule" /\ pass.calls = {"reject"} /\ pass.made = 1 /\ ScanBegin) => (pass'.isEOF /\ ~pass'.threw /\ pass'.matchedIndex # pass.matchedIndex)

\* C31 (EOF dispatch): a pass at the end of input selects the first EOF
\* rule of the active state that is not rejected, with an empty match, and
\* never another rule; after reject() in an EOF action the next pass takes
\* the next EOF rule, and with none left the scanner terminates.
C31_EOFDispatch == [][EOFSelection' /\ EOFRejectMovesOn]_vars

\* The part that holds: the selection at the end of input, and the move to
\* the next EOF rule after a single reject().
C31_SelectsFirst == [][EOFSelection' /\ EOFRejectOnce]_vars

\* Both EOF rules of S were rejected in turn and the scanner terminated.
C31_Witness == pass.kind = "eof" /\ pass.state = StateS /\ pass.rejected = <<2, 3>> /\ result = EOF /\ pc = "idle" /\ given # <<>>
\* The pass began away from the end of input where exactly one rule not
\* rejected matches, and that rule matches the empty string.
OnlyEmptyMatch == pass.kind \in {"rule", "echo"} /\ ~pass.isEOF /\ pass.start >= 0 /\ Cardinality(Candidates) = 1 /\ \A k \in Candidates : RawMatch(k) = <<>>

\* C32 (zero-length matches): when one rule of the active state matches
\* the empty string at the cursor and no other rule left matches there,
\* the pass selects that rule, with an empty match, and does not echo.
C32_EmptyMatchSelected == OnlyEmptyMatch => (pass.kind = "rule" /\ pass.matchedIndex \in Candidates /\ pass.matchedValue = <<>>)

\* The part that holds: an empty match is selected when the rule has an
\* anchor, which adds to its effective length, and only then.
C32_AnchoredOnly == OnlyEmptyMatch => (pass.kind = IF \E k \in Candidates : HasAnchor(PassRules[k]) THEN "rule" ELSE "echo")

\* /^a*/ was selected at the start of 'b' with an empty match.
C32_Witness == pc = "action" /\ OnlyEmptyMatch /\ pass.kind = "rule" /\ pass.matchedValue = <<>> /\ pass.matchedRule.hasBOL /\ given = <<"b">>
\* C33 (the anchor bonus only breaks ties): the rule selected is never an
\* anchored rule while an unanchored rule of the state, not rejected, has a
\* strictly longer raw match at the cursor.
C33_AnchorTieOnly == (Selected /\ HasAnchor(pass.matchedRule)) => \A u \in Candidates : ~HasAnchor(PassRules[u]) => Len(RawMatch(u)) <= Len(pass.matchedValue)

\* The part that holds: the anchored rule selected is never more than one
\* character per anchor shorter than any regular expression without anchor.
C33_WithinBonus == (Selected /\ HasAnchor(pass.matchedRule)) => \A u \in Candidates : (~HasAnchor(PassRules[u]) /\ PassRules[u].fixedWidth = NoWidth) => Len(RawMatch(u)) <= EffectiveLength(pass.matchedRule, pass.matchedValue)

\* /^a/ was selected at the start of a source on which /../ matches two
\* characters.
C33_Witness == Selected /\ pass.matchedRule.hasBOL /\ Len(pass.matchedValue) = 1 /\ \E u \in Candidates : PassRules[u].expression = <<".", ".">> /\ Len(RawMatch(u)) = 2
\* The pass that ends carried a text over from more() into the match of a
\* rule whose action only called reject(), and the pass that begins selects
\* a rule at the same cursor.
RetryAfterMore == pc = "scan" /\ pass.kind = "rule" /\ pass.carry /\ pass.kept # <<>> /\ pass.calls = {"reject"} /\ pass.made = 1 /\ pc' = "action" /\ pass'.start = pass.start

\* C34 (more() survives a reject): when the rule selected after more()
\* rejects, the action of the rule selected next sees the text carried over
\* by more() followed by its own match.
C34_MoreSurvivesReject == [][RetryAfterMore => text' = pass.kept \o pass'.matchedValue]_vars

\* What the code does: the retried pass starts its text afresh.
C34_CarryLost == [][RetryAfterMore => (text' = pass'.matchedValue /\ ~pass'.carry)]_vars

\* The retried pass after more() and reject() has selected another rule.
C34_Witness == pc = "action" /\ pass.kind = "rule" /\ ~pass.carry /\ pass.rejected # <<>> /\ pass.start > 0 /\ pass.matchedValue # <<>> /\ text = pass.matchedValue /\ pass.state = STATE_INITIAL
\* The addStateRule('*', ...) calls.
StarCalls == {c \in RuleCalls : c.spec = In(STATE_ANY)}

\* The call appends its rule to the list of every state registered now.
StarAttaches(c) == CallAddStateRule(c) => (DOMAIN cfg'.rules = DOMAIN cfg.rules /\ \A st \in DOMAIN cfg.rules : cfg'.rules[st] = Append(cfg.rules[st], Built(c)))

\* Registering a new state gives it an empty rule list and no rule of an
\* earlier call.
LateStateEmpty(c) == (CallAddState(c) /\ ~Registered(c.name)) => (cfg'.rules[c.name] = <<>> /\ \A d \in StarCalls : Holds(c.name, Built(d))' = 0)

\* C35 (* is resolved when the rule is registered): addStateRule('*', ...)
\* attaches the rule to every state registered at the call, inclusive or
\* exclusive, and a state registered later does not receive it.
C35_StarAtRegistration == [][(\A c \in StarCalls : StarAttaches(c)) /\ (\A c \in StateCalls : LateStateEmpty(c))]_vars

\* The rule of a * call is in INITIAL and in the exclusive state, and not
\* in the inclusive state, which was registered after the call.
C35_Witness == \E c \in StarCalls : Holds(STATE_INITIAL, Built(c)) = 1 /\ Registered(StateS) /\ cfg.exclusive[StateS] /\ Holds(StateS, Built(c)) = 1 /\ Registered(StateT) /\ Holds(StateT, Built(c)) = 0
\* C36 (addState is idempotent): addState(name, ...) for a name that is
\* registered already leaves the registry, the flag of that state included,
\* and every rule list as they were.
C36_AddStateIdempotent == [][\A c \in RepeatCalls : (CallAddState(c) /\ Registered(c.name)) => cfg' = cfg]_vars

\* The part that holds: the call keeps the key order, the flag of every
\* other state and every rule list, and sets the flag given.
C36_FlagOverwritten == [][\A c \in RepeatCalls : (CallAddState(c) /\ Registered(c.name)) => (cfg'.order = cfg.order /\ cfg'.rules = cfg.rules /\ cfg'.exclusive[c.name] = c.excl /\ \A n \in DOMAIN cfg.exclusive \ {c.name} : cfg'.exclusive[n] = cfg.exclusive[n])]_vars

\* S was registered as exclusive and again as inclusive, and a rule added
\* without a state spec afterwards is in its list.
C36_Witness == Registered(StateS) /\ ~cfg.exclusive[StateS] /\ Len(RulesOf(StateS)) = 2 /\ RulesOf(StateS)[1].expression = <<"b">> /\ RulesOf(StateS)[2].expression = <<"a">> /\ Len(RulesOf(STATE_INITIAL)) = 1
\* The pass scan() is about to make, as it is made and as it would be made
\* with debug disabled.
LoudPass == Entered(Select(ActiveRules, rejectedRules, source, index))

QuietPass == EnteredWith(Select(ActiveRules, rejectedRules, source, index), FALSE)

\* The pass made is, but for its trace, the pass made without debug, and
\* it logs one record if that pass selects a rule and none otherwise.
Observed == pass'.trace = LoudPass.trace /\ pass'.kind = QuietPass.kind /\ [LoudPass EXCEPT !.trace = <<>>] = QuietPass /\ Len(pass'.trace) = (IF QuietPass.kind = "rule" THEN 1 ELSE 0)

\* C37 (debug tracing is an observer): with debug enabled every pass that
\* selects a rule, ordinary or EOF, logs exactly one record, every other
\* pass logs none, and the pass and all it does to the runtime, the output
\* and the result are those of the same pass with debug disabled.
C37_DebugObserver == [][(ScanBegin /\ cfg.debugEnabled) => Observed]_vars

\* The part that holds: passes that select no EOF rule, and every pass with
\* debug disabled, which logs nothing.
C37_OrdinaryRules == [][(ScanBegin /\ ~QuietPass.matchedRule.isEOF) => (Observed \/ (~cfg.debugEnabled /\ pass'.trace = <<>> /\ LoudPass = QuietPass))]_vars

\* A pass with debug enabled has selected a rule in S and logged it.
C37_Witness == pc = "action" /\ cfg.debugEnabled /\ pass.kind = "rule" /\ pass.state = StateS /\ Len(pass.trace) = 1 /\ pass.trace[1].state = StateS /\ pass.trace[1].value = pass.matchedValue /\ pass.matchedValue # <<>>
\* C38 (registered states): in every reachable state, state names a
\* registered state and so does every entry of the state stack.
C38_RegisteredStates == Registered(state) /\ \A i \in 1..Len(stateStack) : Registered(stateStack[i])

\* The part that holds: state and the stack entries are names the lookup
\* this.states[name] finds, registered or inherited.
C38_KnownStates == Known(state) /\ \A i \in 1..Len(stateStack) : Known(stateStack[i])

\* The stack holds INITIAL and S under the state S after two pushes and a
\* failed begin.
C38_Witness == stateStack = <<STATE_INITIAL, StateS>> /\ C38_RegisteredStates /\ state = StateS /\ pass.threw /\ pass.calls = {"begin"}
\* lex() is running: scan() is about to be called or an action runs.
InLex == pc \in {"scan", "action"}

\* C39 (lex() terminates): with rules that match no empty string and
\* actions that call only echo, more, reject, begin, switchState, pushState
\* and popState, every lex() call returns (or raises) after finitely many
\* passes.
C39_LexTerminates == InLex ~> ~InLex

\* The part that holds, under SpecRejectOnce: every lex() call ends when no
\* action calls reject() more than once.
C39_RejectOnceTerminates == (pc = "scan") ~> (pc \in {"idle", "thrown"})

\* A pass has rejected twice and left the cursor before the cursor it
\* began at.
C39_Witness == pc = "scan" /\ pass.kind = "rule" /\ pass.calls = {"reject"} /\ pass.made = 2 /\ index < pass.start /\ index >= 0
\* One iteration of the selection with the fixed-width test of scan() left
\* out: every rule that is not rejected is evaluated.
SelectStepAll(rule, k, best, rejected, atEOF, src, idx) ==
  IF \E j \in 1..Len(rejected) : rejected[j] = k THEN best
  ELSE IF atEOF THEN (IF rule.isEOF THEN [index |-> k, value |-> <<>>, length |-> best.length, threw |-> FALSE, done |-> TRUE] ELSE best)
  ELSE IF rule.expression = Null THEN [best EXCEPT !.threw = TRUE, !.done = TRUE]
  ELSE LET curMatch == execRegExp(rule.expression, src, idx)
       IN IF curMatch # NoMatch /\ Improves(EffectiveLength(rule, curMatch), best)
          THEN [index |-> k, value |-> curMatch, length |-> EffectiveLength(rule, curMatch), threw |-> FALSE, done |-> FALSE]
          ELSE best

RECURSIVE SelectLoopAll(_, _, _, _, _, _, _)
SelectLoopAll(rules, k, best, rejected, atEOF, src, idx) == IF k > Len(rules) \/ best.done THEN best ELSE SelectLoopAll(rules, k + 1, SelectStepAll(rules[k], k, best, rejected, atEOF, src, idx), rejected, atEOF, src, idx)

\* The rule selected when every non-rejected rule is evaluated and ranked
\* by effective length.
SelectAll(rules, rejected, src, idx) == SelectLoopAll(rules, 1, NoneMatched, rejected, idx >= Len(src), src, idx)

\* The selection of the pass about to begin, with the skip and without.
WithSkip == Select(RulesOf(state), rejectedRules, source, index)

WithoutSkip == SelectAll(RulesOf(state), rejectedRules, source, index)

SameSelection == WithSkip.index = WithoutSkip.index /\ WithSkip.value = WithoutSkip.value

\* A literal of the active state carries an anchor flag.
AnchoredLiteral == \E k \in 1..Len(RulesOf(state)) : RulesOf(state)[k].fixedWidth # NoWidth /\ (RulesOf(state)[k].hasBOL \/ RulesOf(state)[k].hasEOL)

\* The skip hides a literal that is not rejected and matches at the cursor.
SkipHides == \E k \in 1..Len(RulesOf(state)) : RulesOf(state)[k].fixedWidth # NoWidth /\ RulesOf(state)[k].fixedWidth <= WithSkip.length /\ k # WithSkip.index /\ (\A j \in 1..Len(rejectedRules) : rejectedRules[j] # k) /\ execRegExp(RulesOf(state)[k].expression, source, index) # NoMatch

\* C40 (the fixed-width skip is a pure optimisation): for every rule list of
\* literals and regular expressions, every rejected set and every cursor,
\* the rule and the text selected with the skip are those selected when
\* every non-rejected rule is evaluated and ranked by effective length.
C40_SkipPureOptimisation == pc = "scan" => SameSelection

\* The part that holds: the two selections agree when no literal of the
\* active state carries an anchor flag.
C40_UnanchoredLiterals == (pc = "scan" /\ ~AnchoredLiteral) => SameSelection

\* A pass is about to begin in which the skip hides a matching literal
\* without an anchor flag after a rejection, and both selections agree.
C40_Witness == pc = "scan" /\ ~AnchoredLiteral /\ SkipHides /\ rejectedRules # <<>> /\ SameSelection /\ WithSkip.index # 0
====
